---- MODULE Spec2Model ----
(***************************************************************************)
(* Model of the Boss Zhipin crawler (src/boss_zhipin.py): login(), the     *)
(* query_jobs() async generator and decode_salary().                       *)
(*                                                                         *)
(* Text is a sequence of characters.  ASCII characters are themselves;     *)
(* every other character is written as its code point, "U5317" for 北.     *)
(***************************************************************************)
EXTENDS Integers, Sequences, FiniteSets, TLC

\* ------------------------------------------------------------------ text

None == "None"

\* Python str.isspace() for the characters the model uses
IsSpace(c) == c \in {" ", "\t", "\n"}

UpperChars == <<"A","B","C","D","E","F","G","H","I","J","K","L","M",
                "N","O","P","Q","R","S","T","U","V","W","X","Y","Z">>
LowerChars == <<"a","b","c","d","e","f","g","h","i","j","k","l","m",
                "n","o","p","q","r","s","t","u","v","w","x","y","z">>

\* str.lower() on one character
LowerCh(c) ==
    IF \E k \in 1..Len(UpperChars) : UpperChars[k] = c
    THEN LowerChars[CHOOSE k \in 1..Len(UpperChars) : UpperChars[k] = c]
    ELSE c

\* str.lower()
Lower(s) == [k \in 1..Len(s) |-> LowerCh(s[k])]

\* the operator `in` on strings: a occurs in b as a contiguous substring
Contains(b, a) ==
    \E k \in 0..(Len(b) - Len(a)) : \A j \in 1..Len(a) : b[k + j] = a[j]

\* str.startswith()
StartsWith(s, p) == Len(p) <= Len(s) /\ \A j \in 1..Len(p) : s[j] = p[j]

\* str.split() with no argument: the maximal runs of non-whitespace characters
RECURSIVE SplitFrom(_, _, _)
SplitFrom(s, k, cur) ==
    IF k > Len(s) THEN (IF cur = <<>> THEN <<>> ELSE <<cur>>)
    ELSE IF IsSpace(s[k])
         THEN (IF cur = <<>> THEN <<>> ELSE <<cur>>) \o SplitFrom(s, k + 1, <<>>)
         ELSE SplitFrom(s, k + 1, Append(cur, s[k]))

Split(s) == SplitFrom(s, 1, <<>>)

\* str.strip() is non-empty exactly when some character is not whitespace
StripNonEmpty(s) == \E k \in 1..Len(s) : ~IsSpace(s[k])

\* ------------------------------------------------------------ constants

\* base_url = "https://www.zhipin.com"
base_url == <<"h","t","t","p","s",":","/","/","w","w","w",".","z","h","i","p","i","n",".","c","o","m">>

Beijing   == <<"U5317","U4EAC">>   \* 北京
Shanghai  == <<"U4E0A","U6D77">>   \* 上海
Guangzhou == <<"U5E7F","U5DDE">>   \* 广州
Shenzhen  == <<"U6DF1","U5733">>   \* 深圳
Hangzhou  == <<"U676D","U5DDE">>   \* 杭州
Chengdu   == <<"U6210","U90FD">>   \* 成都
Wuhan     == <<"U6B66","U6C49">>   \* 武汉
Xian      == <<"U897F","U5B89">>   \* 西安
Nanjing   == <<"U5357","U4EAC">>   \* 南京
Suzhou    == <<"U82CF","U5DDE">>   \* 苏州
Tianjin   == <<"U5929","U6D25">>   \* 天津
Chongqing == <<"U91CD","U5E86">>   \* 重庆
Changsha  == <<"U957F","U6C99">>   \* 长沙
Zhengzhou == <<"U90D1","U5DDE">>   \* 郑州
Jinan     == <<"U6D4E","U5357">>   \* 济南
Qingdao   == <<"U9752","U5C9B">>   \* 青岛
Dalian    == <<"U5927","U8FDE">>   \* 大连
Xiamen    == <<"U53A6","U95E8">>   \* 厦门
Fuzhou    == <<"U798F","U5DDE">>   \* 福州
Hefei     == <<"U5408","U80A5">>   \* 合肥
Nationwide == <<"U5168","U56FD">>  \* 全国
Unknown    == <<"U672A","U77E5">>  \* 未知
Unlimited  == <<"U4E0D","U9650">>  \* 不限

\* city_code_mapping: city code -> city name
city_code_mapping ==
    [c \in {"100010000","101010100","101020100","101280100","101280600",
            "101210100","101270100","101200100","101110100","101190100",
            "101190400","101030100","101040100","101250100","101180100",
            "101120100","101120200","101070200","101230200","101230100",
            "101220100"} |->
        CASE c = "100010000" -> Nationwide
          [] c = "101010100" -> Beijing
          [] c = "101020100" -> Shanghai
          [] c = "101280100" -> Guangzhou
          [] c = "101280600" -> Shenzhen
          [] c = "101210100" -> Hangzhou
          [] c = "101270100" -> Chengdu
          [] c = "101200100" -> Wuhan
          [] c = "101110100" -> Xian
          [] c = "101190100" -> Nanjing
          [] c = "101190400" -> Suzhou
          [] c = "101030100" -> Tianjin
          [] c = "101040100" -> Chongqing
          [] c = "101250100" -> Changsha
          [] c = "101180100" -> Zhengzhou
          [] c = "101120100" -> Jinan
          [] c = "101120200" -> Qingdao
          [] c = "101070200" -> Dalian
          [] c = "101230200" -> Xiamen
          [] c = "101230100" -> Fuzhou
          [] c = "101220100" -> Hefei]

\* city_list of the free-text scan, in its order
city_list == <<Beijing, Shanghai, Guangzhou, Shenzhen, Hangzhou, Chengdu, Wuhan,
               Xian, Nanjing, Suzhou, Tianjin, Chongqing, Changsha, Zhengzhou,
               Jinan, Qingdao, Dalian, Xiamen, Fuzhou, Hefei>>

\* default_city = city_code_mapping.get(city, "未知")
DefaultCity(c) == IF c \in DOMAIN city_code_mapping THEN city_code_mapping[c] ELSE Unknown

\* salary_code_to_text, experience_code_to_text, degree_code_to_text:
\* facet code -> label shown on the page
salary_code_to_text ==
    [c \in {"101","102","103","104","105","106","107"} |->
        CASE c = "101" -> <<"5","K","-","1","0","K">>
          [] c = "102" -> <<"1","0","K","U4EE5","U4E0B">>
          [] c = "103" -> <<"1","0","K","-","1","5","K">>
          [] c = "104" -> <<"1","5","K","-","2","0","K">>
          [] c = "105" -> <<"2","0","K","-","3","0","K">>
          [] c = "106" -> <<"3","0","K","-","5","0","K">>
          [] c = "107" -> <<"5","0","K","U4EE5","U4E0A">>]

experience_code_to_text ==
    [c \in {"102","103","104","106","107","108","109"} |->
        CASE c = "102" -> <<"U5E94","U5C4A","U751F">>
          [] c = "103" -> <<"U5728","U6821","/","U5B9E","U4E60">>
          [] c = "104" -> <<"1","U5E74","U4EE5","U5185">>
          [] c = "106" -> <<"1","-","3","U5E74">>
          [] c = "107" -> <<"3","-","5","U5E74">>
          [] c = "108" -> <<"5","-","1","0","U5E74">>
          [] c = "109" -> <<"1","0","U5E74","U4EE5","U4E0A">>]

degree_code_to_text ==
    [c \in {"203","204","205","206","207"} |->
        CASE c = "203" -> <<"U5927","U4E13">>
          [] c = "204" -> <<"U4E0D","U9650">>
          [] c = "205" -> <<"U672C","U79D1">>
          [] c = "206" -> <<"U7855","U58EB">>
          [] c = "207" -> <<"U535A","U58EB">>]

\* dict.get(code): the label, or <<>> (falsy, as None is) when the code is missing
TableGet(table, code) == IF code \in DOMAIN table THEN table[code] ELSE <<>>

\* Truthy when the test is `is not None`
TruthyNotNone(x) == x # None

\* truth value of an optional string argument: None and "" are falsy
Truthy(x) == x \notin {None, ""}

\* ------------------------------------------------------------- bounds

\* range(300) of the polling loop of login()
MaxPolls == 300

\* largest scroll_n explored
MaxScroll == 3
\* largest number of cards container.locator(".job-card-box").all() returns
MaxCards == 2
\* largest container height, in units of one page of results
MaxHeight == 2
\* longest argument of decode_salary explored, beside the page's salary texts
MaxSalaryLen == 2

\* ------------------------------------------------------------- inputs

\* chr(0x6025) chr(0x62DB): the tag alt text 急招
TagUrgent == <<"U6025","U62DB">>
TagNew    == <<"n","e","w">>

XCorp  == <<"X","C","o","r","p">>
Acme   == <<"A","c","m","e">>
\* 某知名互联网公司
Agency == <<"U67D0","U77E5","U540D","U4E92","U8054","U7F51","U516C","U53F8">>

\* the search keywords explored: two tokens of mixed case, and the empty keyword
Queries == { <<"P","y"," ","d","e","v">>, <<>> }
\* 北京, 全国, and a code missing from city_code_mapping
CityCodes == { "101010100", "100010000", "999" }
TagSets == { {}, {TagUrgent} }
Blacklists == { {}, {XCorp} }
\* (salary, experience, degree) facet codes; None is an absent facet, "" an
\* empty one
FacetChoices == { <<None, None, None>>, <<"103", "106", "205">>,
                  <<"", "106", None>>, <<"103", None, "">>, <<"999", "106", None>> }

\* the calls of query_jobs explored: every combination of the filter criteria
\* with BaseCall's values for the rest, and BaseCall with one other argument, or
\* the cookie file, changed
BaseCall ==
    [query |-> <<"P","y"," ","d","e","v">>, city |-> "101010100", filter_tags |-> {},
     blacklist |-> {}, facets |-> <<None, None, None>>, scroll_n |-> 0,
     headless_cb |-> FALSE, cookieFile |-> "absent"]

Calls ==
    {[BaseCall EXCEPT !.query = q, !.city = c, !.filter_tags = t, !.blacklist = b] :
        q \in Queries, c \in CityCodes, t \in TagSets, b \in Blacklists}
      \cup {[BaseCall EXCEPT !.facets = f] : f \in FacetChoices}
      \cup {[BaseCall EXCEPT !.scroll_n = n] : n \in 0..MaxScroll}
      \cup {[BaseCall EXCEPT !.headless_cb = cb] : cb \in BOOLEAN}
      \cup {[BaseCall EXCEPT !.cookieFile = f] : f \in {"absent", "saved"}}

\* --------------------------------------------------------------- state

VARIABLES
    pc,            \* position of the query_jobs coroutine
    query, city, salary, experience, degree, scroll_n, filter_tags, blacklist,
    headless_cb,   \* self._headless_cb
    default_city,
    cookieFile,    \* the file at cookies_path: "absent", "saved" or "refreshed"
    ctxCookies,    \* cookies added to the browser context: "none" or "saved"
    browser,       \* "none", "open" (inside async with) or "closed"
    poll,          \* iterations of the login loop completed
    figure,        \* .nav-figure is visible
    loginRet,      \* value login() returned: "none" (not yet), "true", "false"
    qrSent,        \* headless_cb was invoked with the code image
    lastTry,       \* the try block of the iteration under way, once it is over:
                   \* was the login button clicked, was the code image visible,
                   \* was headless_cb invoked
    searchParams,  \* query parameters of the search page requested, <<>> before
    facetClicks,   \* facet controls clicked
    facetFailed,   \* whether a probe or click of the facet block raised
    height,        \* extent of .job-list-container, 0 until first measured
    prev_h,
    it,            \* iterations of the scroll loop started
    wheels,        \* page.mouse.wheel calls issued
    scrolls,       \* per iteration of the scroll loop: the extent measured, the
                   \* wheel delta issued and what the loading indicator did
    nCards,        \* len(jobs)
    i,             \* position of the card the for-loop is at, 0 before the first
    cur,           \* the listing whose card is at position i
    job_city,
    company_name,
    job_url_full,
    title_text,
    desc_text,
    experience_text,
    lastClicked,   \* position of the last card clicked, 0 if none
    lastYielded,   \* position of the last card a record was yielded for, 0 if none
    out,           \* the record handed to the consumer at a yield, NoJob otherwise
    skipped,       \* why the for-loop left the last card by continue, "no" if not
    consumer,      \* the caller iterating the stream: "awaiting" the next record,
                   \* "holding" the record just yielded, or "stopped" iterating
    panel,         \* what .job-detail-box shows: "none", "good" (the detail view
                   \* of listing Good) or "other" (any other detail view)
    lastDwelled,   \* position of the last card whose detail view got the 2 to 5
                   \* second dwell, 0 if none
    salary_arg,    \* the argument of a direct call of decode_salary
    decoded,       \* its result
    redecoded,     \* the result of decode_salary applied to that result
    task_infos,    \* the task descriptions given to generate_config
    gen_scroll_n,  \* the scroll count given to generate_config
    config         \* the configuration generated or saved, a dictionary

loginVars == <<cookieFile, ctxCookies, poll, figure, loginRet, qrSent, lastTry>>
argVars == <<query, city, salary, experience, degree, scroll_n, filter_tags, blacklist,
             headless_cb, default_city>>
pageVars == <<searchParams, facetClicks, facetFailed, height, prev_h, it, wheels, scrolls, nCards>>
localVars == <<job_city, company_name, job_url_full, title_text, desc_text,
               experience_text>>
cardVars == <<i, cur, localVars>>
outVars == <<lastClicked, lastYielded, out, skipped, consumer, panel, lastDwelled>>
decodeVars == <<salary_arg, decoded, redecoded>>

\* Job.Info
JobInfo(company, title, sal, ex, desc, url, c) ==
    [company |-> company, title |-> title, salary |-> sal, experience |-> ex,
     desc |-> desc, url |-> url, city |-> c]

NoJob == JobInfo(<<>>, <<>>, <<>>, <<>>, <<>>, <<>>, <<>>)
configVars == <<task_infos, gen_scroll_n, config>>
vars == <<pc, argVars, loginVars, browser, pageVars, cardVars, outVars, decodeVars,
          configVars>>

\* an element that is not there (or not visible), and a visible one with its text
NoElem == [vis |-> FALSE, text |-> <<>>]
Elem(t) == [vis |-> TRUE, text |-> t]

\* A listing as the page shows it.  On its card: tag (.job-tag-icon, with its alt
\* text), hint (.job-area, .job-limit, .job-info .job-area, .job-info .job-limit),
\* company (.boss-name) and href (of .job-name).  In its detail view: active
\* (.boss-active-time), loc (the eight location selectors), info (.info-primary,
\* .job-primary, .job-header, .job-detail-header), title, desc and salary.
\* absent names the one element read with inner_text() or awaited with expect()
\* that the listing lacks ("desc", "boss", "title" and "salary" of the detail
\* view, "company" of the card), "none" when it has them all.
Listing(tag, hint, company, href, active, loc, info, title, desc, sal) ==
    [tag |-> tag, hint |-> hint, company |-> company, href |-> href, active |-> active,
     loc |-> loc, info |-> info, title |-> title, desc |-> desc, salary |-> sal,
     absent |-> "none"]

NoListing == Listing(NoElem, <<>>, <<>>, NoElem, NoElem, <<>>, <<>>, <<>>, <<>>, <<>>)

\* the state when query_jobs is called with the arguments of call, nothing done
Called(call) ==
    /\ query = call.query
    /\ city = call.city
    /\ salary = call.facets[1]
    /\ experience = call.facets[2]
    /\ degree = call.facets[3]
    /\ scroll_n = call.scroll_n
    /\ filter_tags = call.filter_tags
    /\ blacklist = call.blacklist
    /\ headless_cb = call.headless_cb
    /\ cookieFile = call.cookieFile
    /\ default_city = <<>>
    /\ ctxCookies = "none"
    /\ browser = "none"
    /\ poll = 0
    /\ figure = FALSE
    /\ loginRet = "none"
    /\ qrSent = FALSE
    /\ lastTry = [clicked |-> FALSE, qrcode |-> FALSE, invoked |-> FALSE]
    /\ searchParams = <<>>
    /\ facetClicks = 0
    /\ facetFailed = FALSE
    /\ height = 0
    /\ prev_h = 0
    /\ it = 0
    /\ wheels = 0
    /\ scrolls = <<>>
    /\ nCards = 0
    /\ i = 0
    /\ cur = NoListing
    /\ job_city = <<>>
    /\ company_name = <<>>
    /\ job_url_full = <<>>
    /\ title_text = <<>>
    /\ desc_text = <<>>
    /\ experience_text = <<>>
    /\ lastClicked = 0
    /\ lastYielded = 0
    /\ out = NoJob
    /\ skipped = "no"
    /\ consumer = "awaiting"
    /\ panel = "none"
    /\ lastDwelled = 0

Init ==
    /\ \E call \in Calls : Called(call)
    /\ salary_arg = <<>>
    /\ decoded = <<>>
    /\ redecoded = <<>>
    /\ task_infos = <<>>
    /\ gen_scroll_n = 0
    /\ config = <<>>
    /\ pc = "start"

\* ---------------------------------------------------------------- login

\* LoadCookies when the file is not read
LoadCookiesNever(file, ctx) == ctx

\* load_cookies: the file's cookies are added to the context when the file exists
LoadCookies(file, ctx) == IF file # "absent" THEN "saved" ELSE ctx

\* dump_cookies: the file is overwritten with the context's current cookies
DumpCookies(file, ctx) == "refreshed"

\* ExitPlaywright when the browser was started outside `async with`
ExitPlaywrightLeak(b) == b

\* leaving `async with async_playwright() as p`: playwright is stopped and its
\* browser with it
ExitPlaywright(b) == "closed"

\* Raise when the exception does not pass through the exit of `async with`
RaiseOutsideWith ==
    /\ pc' = "raised"
    /\ browser' = browser

\* an exception no handler of query_jobs catches (the AssertionError of an
\* expect, the TimeoutError of a navigation or of inner_text on an absent
\* element): it leaves everything up to async with, and ends the stream
Raise ==
    /\ pc' = "raised"
    /\ browser' = ExitPlaywright(browser)

\* query_jobs up to the call of login, then load_cookies
Start ==
    /\ pc = "start"
    /\ default_city' = DefaultCity(city)
    /\ browser' = "open"
    /\ ctxCookies' = LoadCookies(cookieFile, ctxCookies)
    /\ pc' = "login_goto"
    /\ UNCHANGED <<query, city, salary, experience, degree, scroll_n, filter_tags,
                   blacklist, headless_cb, cookieFile, poll, figure, loginRet, qrSent, lastTry,
                   pageVars, cardVars, outVars>>
    /\ UNCHANGED <<decodeVars, configVars>>

\* page.goto(login page): saved cookies may or may not still authenticate; the
\* navigation may also time out, and login has no handler for that
LoginGoto ==
    /\ pc = "login_goto"
    /\ \/ /\ figure' \in (IF ctxCookies = "saved" THEN BOOLEAN ELSE {FALSE})
          /\ poll' = 0
          /\ pc' = "login_check"
          /\ UNCHANGED browser
       \/ /\ Raise
          /\ UNCHANGED <<figure, poll>>
    /\ UNCHANGED <<argVars, cookieFile, ctxCookies, loginRet, qrSent, lastTry, pageVars,
                   cardVars, outVars>>
    /\ UNCHANGED <<decodeVars, configVars>>

\* LoopContinues with one iteration too many
LoopContinuesOneMore(p) == p <= MaxPolls

\* the loop of login() goes on while fewer than 300 iterations are done
LoopContinues(p) == p < MaxPolls

\* if await figure.is_visible(): dump_cookies; return True
LoginCheck ==
    /\ pc = "login_check"
    /\ LoopContinues(poll)
    /\ IF figure
       THEN /\ cookieFile' = DumpCookies(cookieFile, ctxCookies)
            /\ loginRet' = "true"
            /\ poll' = 0
            /\ pc' = "logged"
       ELSE /\ pc' = "login_try"
            /\ UNCHANGED <<cookieFile, loginRet, poll>>
    /\ lastTry' = [clicked |-> FALSE, qrcode |-> FALSE, invoked |-> FALSE]
    /\ UNCHANGED <<argVars, ctxCookies, figure, browser, qrSent, pageVars, cardVars,
                   outVars>>
    /\ UNCHANGED <<decodeVars, configVars>>

\* InvokesCallback when the callback is not tested
InvokesCallbackUntested(cb, wx_btn, qrcode) == wx_btn /\ qrcode

\* whether one try block calls headless_cb: a callback was given, .wx-login-btn
\* is visible (and is then clicked) and expect(qrcode).to_be_visible() succeeds
InvokesCallback(cb, wx_btn, qrcode) == cb /\ wx_btn /\ qrcode

\* the try block of one iteration.  With a callback and .wx-login-btn visible the
\* button is clicked and, once .mini-qrcode is visible, the callback gets the
\* code; an AssertionError of that wait skips the wait for the marker.  Then
\* expect(figure).to_be_visible(timeout=1000), whose AssertionError is swallowed.
\* The user may complete the login during any of these waits.
LoginTry ==
    /\ pc = "login_try"
    /\ \E wx_btn \in BOOLEAN, qrcode \in BOOLEAN :
         /\ lastTry' = [clicked |-> headless_cb /\ wx_btn,
                        qrcode |-> headless_cb /\ wx_btn /\ qrcode,
                        invoked |-> InvokesCallback(headless_cb, wx_btn, qrcode)]
         /\ qrSent' = IF InvokesCallback(headless_cb, wx_btn, qrcode) THEN TRUE ELSE qrSent
    /\ figure' \in (IF figure THEN {TRUE} ELSE BOOLEAN)
    /\ poll' = poll + 1
    /\ pc' = "login_check"
    /\ UNCHANGED <<argVars, cookieFile, ctxCookies, loginRet, browser, pageVars, cardVars,
                   outVars>>
    /\ UNCHANGED <<decodeVars, configVars>>

\* for-loop exhausted: return False
LoginExhausted ==
    /\ pc = "login_check"
    /\ ~LoopContinues(poll)
    /\ loginRet' = "false"
    /\ poll' = 0
    /\ pc' = "logged"
    /\ lastTry' = [clicked |-> FALSE, qrcode |-> FALSE, invoked |-> FALSE]
    /\ UNCHANGED <<argVars, cookieFile, ctxCookies, figure, qrSent, browser, pageVars,
                   cardVars, outVars>>
    /\ UNCHANGED <<decodeVars, configVars>>

\* --------------------------------------------------------------- search

\* params = dict(query=query, city=city) plus each facet that is truthy
SearchParams(q, c, sal, ex, deg) ==
    <<<<"query", q>>, <<"city", c>>>>
      \o (IF Truthy(sal) THEN <<<<"salary", sal>>>> ELSE <<>>)
      \o (IF Truthy(ex) THEN <<<<"experience", ex>>>> ELSE <<>>)
      \o (IF Truthy(deg) THEN <<<<"degree", deg>>>> ELSE <<>>)

\* ProceedsAfterLogin when the result of login is ignored
ProceedsAfterLoginAlways(ret) == TRUE

\* if not await login(...): return
ProceedsAfterLogin(ret) == ret = "true"

\* back in query_jobs with login's result: go on, or return, leaving async with
LoginReturned ==
    /\ pc = "logged"
    /\ IF ProceedsAfterLogin(loginRet)
       THEN pc' = "search" /\ browser' = browser
       ELSE pc' = "done" /\ browser' = ExitPlaywright(browser)
    /\ UNCHANGED <<argVars, loginVars, pageVars, cardVars, outVars>>
    /\ UNCHANGED <<decodeVars, configVars>>

\* page.goto(search url); a navigation that times out raises
Search ==
    /\ pc = "search"
    /\ searchParams' = SearchParams(query, city, salary, experience, degree)
    /\ \/ pc' = "facets" /\ UNCHANGED browser
       \/ Raise
    /\ UNCHANGED <<argVars, loginVars, facetClicks, facetFailed, height, prev_h,
                   it, wheels, scrolls, nCards, cardVars, outVars>>
    /\ UNCHANGED <<decodeVars, configVars>>

\* the labels the facet block tries to click, in order: one per present facet
\* whose code is in its table
FacetLabels(sal, ex, deg) ==
    (IF Truthy(sal) /\ TableGet(salary_code_to_text, sal) # <<>>
     THEN <<TableGet(salary_code_to_text, sal)>> ELSE <<>>)
      \o (IF Truthy(ex) /\ TableGet(experience_code_to_text, ex) # <<>>
          THEN <<TableGet(experience_code_to_text, ex)>> ELSE <<>>)
      \o (IF Truthy(deg) /\ TableGet(degree_code_to_text, deg) # <<>>
          THEN <<TableGet(degree_code_to_text, deg)>> ELSE <<>>)

\* AfterFacets when the facet block has no handler
AfterFacetsUncaught(failed) == IF failed THEN "raised" ELSE "paginate"

\* where query_jobs goes on after the facet block: `except: continue` in
\* click_option and `except: pass` around the block swallow every failure
AfterFacets(failed) == "paginate"

\* the facet block.  Probing for the filter container ends in an exception, in
\* no visible container (click_option then returns at once) or in the first
\* visible one; with one label click_option either raises, or does not find the
\* text on the page, or clicks the option.  Every failure is swallowed.
ApplyFacets ==
    /\ pc = "facets"
    /\ \E probe \in {"error", "missing", "found"} :
       \E clicks \in [1..Len(FacetLabels(salary, experience, degree)) ->
                         {"error", "notfound", "clicked"}] :
         /\ facetClicks' = IF probe = "found"
                           THEN Cardinality({k \in DOMAIN clicks : clicks[k] = "clicked"})
                           ELSE 0
         /\ facetFailed' = \/ probe = "error"
                           \/ probe = "found" /\ \E k \in DOMAIN clicks : clicks[k] = "error"
         /\ pc' = AfterFacets(facetFailed')
    /\ UNCHANGED <<argVars, loginVars, browser, searchParams, height, prev_h, it,
                   wheels, scrolls, nCards, cardVars, outVars>>
    /\ UNCHANGED <<decodeVars, configVars>>

\* ----------------------------------------------------------- pagination

\* what the waits on .loading-wait of one iteration may end in: to_be_visible
\* fails, to_be_visible succeeds and to_be_hidden fails, or both succeed
LoadingOutcomes == {"absent", "stuck", "hidden"}

\* WheelDelta when the wheel is turned by the whole extent each time
WheelDeltaWhole(bbox, prev) == bbox

\* await page.mouse.wheel(0, bbox["height"] - prev_h)
WheelDelta(bbox, prev) == bbox - prev

\* Grew when an unchanged extent counts as growth
GrewOrSame(bbox, prev) == bbox >= prev

\* if bbox["height"] > prev_h
Grew(bbox, prev) == bbox > prev

\* prev_h = 0, then expect(container).to_be_visible() and container.hover():
\* neither has a handler, so a list container that does not show up raises
EnterPagination ==
    /\ pc = "paginate"
    /\ \/ pc' = "scroll" /\ UNCHANGED browser
       \/ Raise
    /\ UNCHANGED <<argVars, loginVars, pageVars, cardVars, outVars>>
    /\ UNCHANGED <<decodeVars, configVars>>

\* one iteration of the scroll loop: measure, wheel by the delta, then wait for
\* .loading-wait to appear and to hide; an AssertionError of either wait breaks
\* out of the loop.  The container never shrinks; it may grow while the loading
\* indicator is shown.
Scroll ==
    /\ pc = "scroll"
    /\ it < scroll_n
    /\ \E bbox \in (IF height = 0 THEN 1..MaxHeight ELSE {height}) :
       \E loading \in LoadingOutcomes :
         /\ wheels' = wheels + 1
         /\ scrolls' = Append(scrolls, [bbox |-> bbox, delta |-> WheelDelta(bbox, prev_h),
                                        loading |-> loading])
         /\ IF loading = "absent"
            THEN height' = bbox
            ELSE height' \in bbox..MaxHeight
         /\ IF loading = "hidden" /\ Grew(bbox, prev_h)
            THEN prev_h' = bbox /\ pc' = "scroll"
            ELSE prev_h' = prev_h /\ pc' = "list"
    /\ it' = it + 1
    /\ UNCHANGED <<argVars, loginVars, browser, searchParams, facetClicks, facetFailed, nCards,
                   cardVars, outVars>>
    /\ UNCHANGED <<decodeVars, configVars>>

\* jobs = await container.locator(".job-card-box").all()
ListCards ==
    /\ \/ pc = "list"
       \/ pc = "scroll" /\ it >= scroll_n
    /\ nCards' \in 0..MaxCards
    /\ pc' = "cards"
    /\ UNCHANGED <<argVars, loginVars, browser, searchParams, facetClicks, facetFailed, height,
                   prev_h, it, wheels, scrolls, cardVars, outVars>>
    /\ UNCHANGED <<decodeVars, configVars>>

\* ---------------------------------------------------- card: pure parts

\* TagExcluded with the visibility test the wrong way round
TagExcludedHiddenOnly(tags, t) == tags # {} /\ ~t.vis /\ t.text \in tags

\* if filter_tags: if await tag.is_visible() and alt in filter_tags: continue
TagExcluded(tags, t) == tags # {} /\ t.vis /\ t.text \in tags

\* the loop over the card's location selectors, from selector k with job_city jc:
\* the first token of each visible non-blank text is taken, stopping at the
\* first that is not 未知
RECURSIVE CardCityFrom(_, _, _)
CardCityFrom(h, k, jc) ==
    IF k > Len(h) THEN jc
    ELSE IF h[k].vis /\ StripNonEmpty(h[k].text)
         THEN LET c == Split(h[k].text)[1]
              IN  IF c # Unknown THEN c ELSE CardCityFrom(h, k + 1, c)
         ELSE CardCityFrom(h, k + 1, jc)

\* job_city = default_city, then the loop
CardCity(default, h) == CardCityFrom(h, 1, default)

\* await active.is_visible() and re.search(r"[周月年]", await active.inner_text())
IsStale(a) == a.vis /\ \E k \in 1..Len(a.text) : a.text[k] \in {"U5468", "U6708", "U5E74"}

\* the loop over the detail view's location selectors (method 1)
RECURSIVE DetailLocFrom(_, _, _, _)
DetailLocFrom(loc, k, jc, default) ==
    IF k > Len(loc) THEN jc
    ELSE IF loc[k].vis /\ StripNonEmpty(loc[k].text)
         THEN LET c == Split(loc[k].text)[1]
              IN  IF c # default /\ c # Unknown THEN c
                  ELSE DetailLocFrom(loc, k + 1, c, default)
         ELSE DetailLocFrom(loc, k + 1, jc, default)

\* for c in city_list: if c in info_text: job_city = c; break
ScanCity(text, jc) ==
    IF \E k \in 1..Len(city_list) : Contains(text, city_list[k])
    THEN city_list[CHOOSE k \in 1..Len(city_list) :
                     /\ Contains(text, city_list[k])
                     /\ \A j \in 1..(k - 1) : ~Contains(text, city_list[j])]
    ELSE jc

\* the loop over the info blocks (method 2)
RECURSIVE DetailInfoFrom(_, _, _, _)
DetailInfoFrom(info, k, jc, default) ==
    IF k > Len(info) THEN jc
    ELSE IF info[k].vis
         THEN LET c == ScanCity(info[k].text, jc)
              IN  IF c # default /\ c # Unknown THEN c
                  ELSE DetailInfoFrom(info, k + 1, c, default)
         ELSE DetailInfoFrom(info, k + 1, jc, default)

\* DetailCity with the scan of the info blocks run whatever the selectors gave
DetailCityNoCascade(jc, default, loc, info) ==
    LET m1 == IF jc = default \/ jc = Unknown
              THEN DetailLocFrom(loc, 1, jc, default) ELSE jc
        m2 == DetailInfoFrom(info, 1, m1, default)
    IN  IF m2 = Unknown THEN default ELSE m2

\* steps 6.6 of query_jobs: methods 1, 2 and 3 in turn
DetailCity(jc, default, loc, info) ==
    LET m1 == IF jc = default \/ jc = Unknown
              THEN DetailLocFrom(loc, 1, jc, default) ELSE jc
        m2 == IF m1 = default \/ m1 = Unknown
              THEN DetailInfoFrom(info, 1, m1, default) ELSE m1
    IN  IF m2 = Unknown THEN default ELSE m2

\* job_url_full from the href attribute (NoElem: the attribute is None)
FullUrl(href) ==
    IF href.vis /\ href.text # <<>>
    THEN IF StartsWith(href.text, <<"h","t","t","p">>) THEN href.text
         ELSE base_url \o href.text
    ELSE <<>>

\* KeywordsFound with one matching token being enough
KeywordsFoundAnyToken(q, title, desc) ==
    \E k \in 1..Len(Split(q)) :
        \/ Contains(Lower(title), Lower(Split(q)[k]))
        \/ Contains(Lower(desc), Lower(Split(q)[k]))

\* the keyword filter: every token of the stripped query occurs, lower-cased,
\* in the lower-cased title or description; an empty or blank query passes
KeywordsFound(q, title, desc) ==
    \A k \in 1..Len(Split(q)) :
        \/ Contains(Lower(title), Lower(Split(q)[k]))
        \/ Contains(Lower(desc), Lower(Split(q)[k]))

\* CityMatches comparing only the beginning of the resolved city
CityMatchesPrefix(jc, default) == StartsWith(jc, default)

\* CityMatches with the nationwide label matching every city
CityMatchesNationwide(jc, default) == jc = default \/ default = Nationwide

\* if job_city != default_city: continue
CityMatches(jc, default) == jc = default

\* AgencyMarked looking for 某公司 instead of 某
AgencyMarkedPhrase(company) == Contains(company, <<"U67D0", "U516C", "U53F8">>)

\* if "某" in company_name: continue
AgencyMarked(company) == Contains(company, <<"U67D0">>)

\* Blacklisted looking up the lower-cased company name
BlacklistedLowerCased(bl, company) == bl # {} /\ Lower(company) \in bl

\* the negation of `not blacklist or company_name not in blacklist`
Blacklisted(bl, company) == bl # {} /\ company \in bl

\* salary_mapping whose first entry maps to the next obfuscation character
salary_mapping_chained ==
    [c \in {"UE031","UE032","UE033","UE034","UE035","UE036","UE037","UE038","UE039","UE03A"} |->
        CASE c = "UE031" -> "UE032" [] c = "UE032" -> "1" [] c = "UE033" -> "2"
          [] c = "UE034" -> "3" [] c = "UE035" -> "4" [] c = "UE036" -> "5"
          [] c = "UE037" -> "6" [] c = "UE038" -> "7" [] c = "UE039" -> "8"
          [] c = "UE03A" -> "9"]

\* salary_mapping: chr(0xE031)..chr(0xE03A) -> "0".."9"
salary_mapping ==
    [c \in {"UE031","UE032","UE033","UE034","UE035","UE036","UE037","UE038","UE039","UE03A"} |->
        CASE c = "UE031" -> "0" [] c = "UE032" -> "1" [] c = "UE033" -> "2"
          [] c = "UE034" -> "3" [] c = "UE035" -> "4" [] c = "UE036" -> "5"
          [] c = "UE037" -> "6" [] c = "UE038" -> "7" [] c = "UE039" -> "8"
          [] c = "UE03A" -> "9"]

\* decode_salary when the text is passed on as read
decode_salary_raw(sal) == sal

\* decode_salary when the characters outside the table are dropped
decode_salary_dropping(sal) ==
    LET kept == SelectSeq(sal, LAMBDA c : c \in DOMAIN salary_mapping)
    IN  [k \in 1..Len(kept) |-> salary_mapping[kept[k]]]

\* "".join(salary_mapping[c] if c in salary_mapping else c for c in salary)
decode_salary(sal) ==
    [k \in 1..Len(sal) |-> IF sal[k] \in DOMAIN salary_mapping THEN salary_mapping[sal[k]] ELSE sal[k]]

\* ------------------------------------------------- experience patterns

Digits == {"0","1","2","3","4","5","6","7","8","9"}

\* length of the run of digits of s that starts at position p
RECURSIVE DigitsRun(_, _)
DigitsRun(s, p) == IF p <= Len(s) /\ s[p] \in Digits THEN 1 + DigitsRun(s, p + 1) ELSE 0

\* s has the literal lit at position p
LitAt(s, p, lit) == p + Len(lit) - 1 <= Len(s) /\ \A j \in 1..Len(lit) : s[p + j - 1] = lit[j]

\* A pattern is \d+[-~]\d+ ("range"), \d+ ("count") or nothing ("lit"), followed
\* by a literal.  MatchLen is the length of its match at position p, 0 for none.
MatchLen(s, p, pat) ==
    LET n1 == DigitsRun(s, p)
        n2 == DigitsRun(s, p + n1 + 1)
    IN  CASE pat.kind = "range" ->
               IF /\ n1 >= 1
                  /\ p + n1 <= Len(s)
                  /\ s[p + n1] \in {"-", "~"}
                  /\ n2 >= 1
                  /\ LitAt(s, p + n1 + 1 + n2, pat.lit)
               THEN n1 + 1 + n2 + Len(pat.lit) ELSE 0
          [] pat.kind = "count" ->
               IF n1 >= 1 /\ LitAt(s, p + n1, pat.lit) THEN n1 + Len(pat.lit) ELSE 0
          [] OTHER ->
               IF LitAt(s, p, pat.lit) THEN Len(pat.lit) ELSE 0

\* the alternatives pats match at position p: the first of them that matches
AltLen(s, p, pats) ==
    IF \E k \in 1..Len(pats) : MatchLen(s, p, pats[k]) > 0
    THEN MatchLen(s, p, pats[CHOOSE k \in 1..Len(pats) :
                              /\ MatchLen(s, p, pats[k]) > 0
                              /\ \A j \in 1..(k - 1) : MatchLen(s, p, pats[j]) = 0])
    ELSE 0

\* re.search(alternation, s).group(1): the leftmost match, <<>> for no match
ReSearch(s, pats) ==
    IF \E p \in 1..Len(s) : AltLen(s, p, pats) > 0
    THEN LET p0 == CHOOSE p \in 1..Len(s) :
                     /\ AltLen(s, p, pats) > 0
                     /\ \A q \in 1..(p - 1) : AltLen(s, q, pats) = 0
         IN  SubSeq(s, p0, p0 + AltLen(s, p0, pats) - 1)
    ELSE <<>>

Nian == "U5E74"
\* 工作经验 and 经验
WorkExp == <<"U5DE5","U4F5C","U7ECF","U9A8C">>
Exp == <<"U7ECF","U9A8C">>

\* r'(\d+[-~]\d+年|\d+年以上|不限|应届|实习)'
InfoPattern ==
    << [kind |-> "range", lit |-> <<Nian>>],
       [kind |-> "count", lit |-> <<Nian, "U4EE5", "U4E0A">>],
       [kind |-> "lit", lit |-> Unlimited],
       [kind |-> "lit", lit |-> <<"U5E94","U5C4A">>],
       [kind |-> "lit", lit |-> <<"U5B9E","U4E60">>] >>

\* the five patterns tried on the description, in order
DescPatterns ==
    << [kind |-> "range", lit |-> <<Nian>> \o WorkExp],
       [kind |-> "count", lit |-> <<Nian, "U4EE5", "U4E0A">> \o WorkExp],
       [kind |-> "lit", lit |-> <<"U5E94","U5C4A","U6BD5","U4E1A","U751F">>],
       [kind |-> "range", lit |-> <<Nian>> \o Exp],
       [kind |-> "count", lit |-> <<Nian, "U4EE5", "U4E0A">> \o Exp] >>

\* first pass: the first visible info block, from block k, that the pattern matches
RECURSIVE InfoExperienceFrom(_, _)
InfoExperienceFrom(info, k) ==
    IF k > Len(info) THEN Unlimited
    ELSE IF info[k].vis /\ ReSearch(info[k].text, InfoPattern) # <<>>
         THEN ReSearch(info[k].text, InfoPattern)
         ELSE InfoExperienceFrom(info, k + 1)

\* second pass: the first of the description patterns, from pattern k, that matches
RECURSIVE DescExperienceFrom(_, _)
DescExperienceFrom(desc, k) ==
    IF k > Len(DescPatterns) THEN Unlimited
    ELSE IF ReSearch(desc, <<DescPatterns[k]>>) # <<>>
         THEN ReSearch(desc, <<DescPatterns[k]>>)
         ELSE DescExperienceFrom(desc, k + 1)

\* step 6.8: experience_text
ExperienceOf(info, desc) ==
    LET first == InfoExperienceFrom(info, 1)
    IN  IF first = Unlimited THEN DescExperienceFrom(desc, 1) ELSE first

\* -------------------------------------------------------- page contents

Middot == "U00B7"
\* 朝阳区
Chaoyang == <<"U671D","U9633","U533A">>

NoHint == <<NoElem, NoElem, NoElem, NoElem>>
NoLoc == <<NoElem, NoElem, NoElem, NoElem, NoElem, NoElem, NoElem, NoElem>>
NoInfo == <<NoElem, NoElem, NoElem, NoElem>>

\* .job-tag-icon of a card: absent, 急招, or another tag
Tags == { NoElem, Elem(TagUrgent), Elem(TagNew) }

\* the location elements of a card: none; 北京·朝阳区; 北京 朝阳区; 上海;
\* 未知 then 北京; blank
CardHints ==
    { NoHint,
      <<Elem(Beijing \o <<Middot>> \o Chaoyang), NoElem, NoElem, NoElem>>,
      <<Elem(Beijing \o <<" ">> \o Chaoyang), NoElem, NoElem, NoElem>>,
      <<Elem(Shanghai), NoElem, NoElem, NoElem>>,
      <<Elem(Unknown), Elem(Beijing), NoElem, NoElem>>,
      <<Elem(<<" ", " ">>), NoElem, NoElem, NoElem>> }

\* .boss-active-time: absent, 3日内活跃, 本周活跃, 2月内活跃, 半年前活跃
ActiveTexts ==
    { NoElem,
      Elem(<<"3","U65E5","U5185","U6D3B","U8DC3">>),
      Elem(<<"U672C","U5468","U6D3B","U8DC3">>),
      Elem(<<"2","U6708","U5185","U6D3B","U8DC3">>),
      Elem(<<"U534A","U5E74","U524D","U6D3B","U8DC3">>) }

Companies == { Acme, XCorp, Agency }

\* the location elements of the detail view: none; .job-location 上海;
\* .job-location 北京 and .location 上海
DetailLocs ==
    { NoLoc,
      <<Elem(Shanghai), NoElem, NoElem, NoElem, NoElem, NoElem, NoElem, NoElem>>,
      <<Elem(Beijing), NoElem, Elem(Shanghai), NoElem, NoElem, NoElem, NoElem, NoElem>> }

\* the info blocks: none; .info-primary "北京 3-5年"; .job-primary "上海 不限"
InfoBlocks ==
    { NoInfo,
      <<Elem(Beijing \o <<" ","3","-","5",Nian>>), NoElem, NoElem, NoElem>>,
      <<NoElem, Elem(Shanghai \o <<" ">> \o Unlimited), NoElem, NoElem>> }

\* href of the card's .job-name: absent, empty, the relative "/j/1", the
\* absolute "http://x", and the relative "httpx"
Hrefs == { NoElem, Elem(<<>>), Elem(<<"/","j","/","1">>),
           Elem(<<"h","t","t","p",":","/","/","x">>), Elem(<<"h","t","t","p","x">>) }

Titles == { <<"P","Y">>, <<"x">> }
\* "Dev"; "y"; "py DEV 3年以上经验"
Descs == { <<"D","e","v">>, <<"y">>,
           <<"p","y"," ","D","E","V"," ","3",Nian,"U4EE5","U4E0A">> \o Exp }

\* .job-salary: the obfuscated "15-25K", and 面议
Salaries == { <<"UE032","UE036","-","2","5","K">>, <<"U9762","U8BAE">> }

\* a listing in 北京 that passes every filter of a search for "Py dev" there
Good ==
    Listing(NoElem, <<Elem(Beijing \o <<" ">> \o Chaoyang), NoElem, NoElem, NoElem>>,
            Acme, Elem(<<"/","j","/","1">>), Elem(<<"3","U65E5","U5185","U6D3B","U8DC3">>),
            NoLoc, <<Elem(Beijing \o <<" ","3","-","5",Nian>>), NoElem, NoElem, NoElem>>,
            <<"P","Y">>, <<"D","e","v">>, <<"UE032","UE036","-","2","5","K">>)

\* the same listing with no location on its card
Bare == [Good EXCEPT !.hint = NoHint]

\* the listings that differ from l in at most one part
Vary(l) ==
    {[l EXCEPT !.tag = x] : x \in Tags}
      \cup {[l EXCEPT !.hint = x] : x \in CardHints}
      \cup {[l EXCEPT !.company = x] : x \in Companies}
      \cup {[l EXCEPT !.href = x] : x \in Hrefs}
      \cup {[l EXCEPT !.active = x] : x \in ActiveTexts}
      \cup {[l EXCEPT !.loc = x] : x \in DetailLocs}
      \cup {[l EXCEPT !.info = x] : x \in InfoBlocks}
      \cup {[l EXCEPT !.title = x] : x \in Titles}
      \cup {[l EXCEPT !.desc = x] : x \in Descs}
      \cup {[l EXCEPT !.salary = x] : x \in Salaries}
      \cup {[l EXCEPT !.absent = x] :
                x \in {"none", "desc", "boss", "title", "salary", "company"}}

\* Good with 经验不限 in its info block and "py DEV 3年以上经验" as description
UnlimitedInfo ==
    [Good EXCEPT !.info = <<Elem(Exp \o Unlimited), NoElem, NoElem, NoElem>>,
                 !.desc = <<"p","y"," ","D","E","V"," ","3",Nian,"U4EE5","U4E0A">> \o Exp]

\* the listings the result page may hold
Listings == Vary(Good) \cup Vary(Bare) \cup {UnlimitedInfo}

\* the listings explored on the page of a call: any of them when neither a
\* scroll nor a facet is asked for, Good otherwise
PageListings(n, facets) ==
    IF n = 0 /\ facets = <<None, None, None>> THEN Listings ELSE {Good}

\* ------------------------------------------------- decode_salary alone

\* the characters the arguments of decode_salary are made of: the table's ten,
\* the code points next to them on either side, digits and other salary text
SalaryChars ==
    DOMAIN salary_mapping \cup {"UE030", "UE03B", "0", "1", "5", "9", "-", "K", "U9762"}

\* the arguments explored: every text of at most MaxSalaryLen of these
\* characters, and the page's salary texts
SalaryArgs ==
    UNION {[1..n -> SalaryChars] : n \in 0..MaxSalaryLen} \cup Salaries

crawlVars == <<argVars, loginVars, browser, pageVars, cardVars, outVars>>

\* decode_salary is about to be called on a text; no crawl is running
DecodeInit ==
    /\ Called(BaseCall)
    /\ salary_arg \in SalaryArgs
    /\ decoded = <<>>
    /\ redecoded = <<>>
    /\ task_infos = <<>>
    /\ gen_scroll_n = 0
    /\ config = <<>>
    /\ pc = "decode"

\* decode_salary(salary)
Decode ==
    /\ pc = "decode"
    /\ decoded' = decode_salary(salary_arg)
    /\ pc' = "decoded"
    /\ UNCHANGED <<crawlVars, salary_arg, redecoded, configVars>>

\* decode_salary applied to its own result
DecodeAgain ==
    /\ pc = "decoded"
    /\ redecoded' = decode_salary(decoded)
    /\ pc' = "redecoded"
    /\ UNCHANGED <<crawlVars, salary_arg, decoded, configVars>>

DecodeNext == Decode \/ DecodeAgain

DecodeSpec == DecodeInit /\ [][DecodeNext]_vars

\* ---------------------------------------------------------------- cards

\* the locals of one loop iteration, dead once the iteration ends
ClearLocals ==
    /\ job_city' = <<>>
    /\ company_name' = <<>>
    /\ job_url_full' = <<>>
    /\ title_text' = <<>>
    /\ desc_text' = <<>>
    /\ experience_text' = <<>>

\* continue: back to the head of the for-loop
Continue(why) ==
    /\ pc' = "cards"
    /\ skipped' = why
    /\ ClearLocals

fixedVars == <<argVars, loginVars, browser, pageVars>>
callVars == <<argVars, loginVars, pageVars>>

\* the listing whose detail view .job-detail-box shows while the card at i is
\* processed: the clicked one, or Good when the panel of an earlier card stayed
Shown == IF panel = "good" THEN Good ELSE cur

\* NextInJobs when the iteration does not advance
NextInJobsSame(k) == k

\* the position in jobs that `for job in jobs` takes after position k
NextInJobs(k) == k + 1

\* for job in jobs: the next card
CardNext ==
    /\ pc = "cards"
    /\ i < nCards
    /\ i' = NextInJobs(i)
    /\ cur' \in PageListings(scroll_n, <<salary, experience, degree>>)
    /\ skipped' = "no"
    /\ ClearLocals
    /\ pc' = "tag_filter"
    /\ UNCHANGED <<fixedVars, lastClicked, lastYielded, out, consumer, panel, lastDwelled>>
    /\ UNCHANGED <<decodeVars, configVars>>

\* step 6.1
TagFilter ==
    /\ pc = "tag_filter"
    /\ IF TagExcluded(filter_tags, cur.tag)
       THEN Continue("tag")
       ELSE /\ pc' = "card_city"
            /\ UNCHANGED <<localVars, skipped>>
    /\ UNCHANGED <<fixedVars, i, cur, lastClicked, lastYielded, out, consumer, panel,
                   lastDwelled>>
    /\ UNCHANGED <<decodeVars, configVars>>

\* step 6.2: the city read from the card before the click
CardCityRead ==
    /\ pc = "card_city"
    /\ job_city' = CardCity(default_city, cur.hint)
    /\ pc' = "click"
    /\ UNCHANGED <<fixedVars, i, cur, company_name, job_url_full, title_text,
                   desc_text, experience_text, outVars>>
    /\ UNCHANGED <<decodeVars, configVars>>

\* await job.click(...), the pause, then expect(desc) and expect(boss)
\* to_be_visible.  The panel is refreshed with the clicked listing's detail view
\* some time after the click: a panel that already shows an earlier card's
\* detail view satisfies both waits before it is refreshed.  Of the detail views
\* that may stay, Good's is explored.
Click ==
    /\ pc = "click"
    /\ lastClicked' = i
    /\ \E refreshed \in (IF panel = "good" THEN BOOLEAN ELSE {TRUE}) :
         /\ panel' = IF refreshed
                      THEN (IF /\ cur.active = Good.active /\ cur.loc = Good.loc
                               /\ cur.info = Good.info /\ cur.title = Good.title
                               /\ cur.desc = Good.desc /\ cur.salary = Good.salary
                               /\ cur.absent = Good.absent
                            THEN "good" ELSE "other")
                      ELSE panel
         /\ IF (IF refreshed THEN cur ELSE Good).absent \in {"desc", "boss"}
            THEN Raise
            ELSE pc' = "detail" /\ browser' = browser
    /\ UNCHANGED <<callVars, i, cur, localVars, lastYielded, out, skipped, consumer,
                   lastDwelled>>
    /\ UNCHANGED <<decodeVars, configVars>>

\* step 6.4
ActiveCheck ==
    /\ pc = "detail"
    /\ IF IsStale(Shown.active)
       THEN Continue("stale")
       ELSE /\ pc' = "company"
            /\ UNCHANGED <<localVars, skipped>>
    /\ UNCHANGED <<fixedVars, i, cur, lastClicked, lastYielded, out, consumer, panel,
                   lastDwelled>>
    /\ UNCHANGED <<decodeVars, configVars>>

\* steps 6.5 to 6.7: company name (from the card), city from the detail view,
\* url (from the card)
ReadDetail ==
    /\ pc = "company"
    /\ IF cur.absent = "company"
       THEN /\ Raise
            /\ UNCHANGED <<company_name, job_city, job_url_full>>
       ELSE /\ company_name' = cur.company
            /\ job_city' = DetailCity(job_city, default_city, Shown.loc, Shown.info)
            /\ job_url_full' = FullUrl(cur.href)
            /\ pc' = "filter"
            /\ browser' = browser
    /\ UNCHANGED <<callVars, i, cur, title_text, desc_text, experience_text,
                   outVars>>
    /\ UNCHANGED <<decodeVars, configVars>>

\* title and description are read; keyword, city and agency filters
Filter ==
    /\ pc = "filter"
    /\ IF Shown.absent = "title"
       THEN /\ Raise
            /\ UNCHANGED <<localVars, skipped>>
       ELSE /\ browser' = browser
            /\ IF ~KeywordsFound(query, Shown.title, Shown.desc) THEN Continue("keyword")
               ELSE IF ~CityMatches(job_city, default_city) THEN Continue("city")
               ELSE IF AgencyMarked(company_name) THEN Continue("agency")
               ELSE /\ title_text' = Shown.title
                    /\ desc_text' = Shown.desc
                    /\ pc' = "experience"
                    /\ UNCHANGED <<job_city, company_name, job_url_full, experience_text,
                                   skipped>>
    /\ UNCHANGED <<callVars, i, cur, lastClicked, lastYielded, out, consumer, panel,
                   lastDwelled>>
    /\ UNCHANGED <<decodeVars, configVars>>

\* step 6.8
ExperienceRead ==
    /\ pc = "experience"
    /\ experience_text' = ExperienceOf(Shown.info, desc_text)
    /\ pc' = "blacklist"
    /\ UNCHANGED <<fixedVars, i, cur, job_city, company_name, job_url_full,
                   title_text, desc_text, outVars>>
    /\ UNCHANGED <<decodeVars, configVars>>

\* YieldPoint when the record is set aside and the loop goes on
YieldPointEager == "cards"

\* where the coroutine is after `yield Job(...)`: suspended at the yield until
\* the consumer asks for the next record
YieldPoint == "yielded"

\* steps 6.9 and 6.10: the blacklist check, the dwell of 2 to 5 seconds, and the
\* yield of the record, its salary read from the detail view
Yield ==
    /\ pc = "blacklist"
    /\ IF Blacklisted(blacklist, company_name)
       THEN /\ Continue("blacklist")
            /\ browser' = browser
            /\ UNCHANGED <<lastYielded, out, consumer, lastDwelled>>
       ELSE /\ lastDwelled' = i
            /\ IF Shown.absent = "salary"
               THEN /\ Raise
                    /\ UNCHANGED <<lastYielded, out, consumer>>
               ELSE /\ out' = JobInfo(company_name, title_text,
                                      decode_salary(Shown.salary), experience_text,
                                      desc_text, job_url_full, job_city)
                    /\ lastYielded' = i
                    /\ consumer' = "holding"
                    /\ pc' = YieldPoint
                    /\ browser' = browser
            /\ UNCHANGED <<localVars, skipped>>
    /\ UNCHANGED <<callVars, i, cur, lastClicked, panel>>
    /\ UNCHANGED <<decodeVars, configVars>>

\* the consumer asks for the next record: the generator resumes after the yield
Resume ==
    /\ pc = "yielded"
    /\ consumer = "holding"
    /\ out' = NoJob
    /\ consumer' = "awaiting"
    /\ pc' = "cards"
    /\ UNCHANGED <<fixedVars, cardVars, lastClicked, lastYielded, skipped, panel,
                   lastDwelled>>
    /\ UNCHANGED <<decodeVars, configVars>>

\* the consumer stops iterating with a record in hand (break, return or an
\* exception in the body of its `async for`)
Stop ==
    /\ pc = "yielded"
    /\ consumer = "holding"
    /\ consumer' = "stopped"
    /\ UNCHANGED <<pc, fixedVars, cardVars, lastClicked, lastYielded, out, skipped,
                   panel, lastDwelled>>
    /\ UNCHANGED <<decodeVars, configVars>>

\* the abandoned generator is closed (aclose, by the event loop's finalizer or
\* at its shutdown): GeneratorExit is raised at the yield and leaves async with
Close ==
    /\ pc = "yielded"
    /\ consumer = "stopped"
    /\ browser' = ExitPlaywright(browser)
    /\ pc' = "done"
    /\ UNCHANGED <<argVars, loginVars, pageVars, cardVars, outVars>>
    /\ UNCHANGED <<decodeVars, configVars>>

\* the for-loop is exhausted: query_jobs returns, leaving async with
Finish ==
    /\ pc = "cards"
    /\ i >= nCards
    /\ browser' = ExitPlaywright(browser)
    /\ pc' = "done"
    /\ UNCHANGED <<argVars, loginVars, pageVars, cardVars, outVars>>
    /\ UNCHANGED <<decodeVars, configVars>>

\* ------------------------------------------------------- configuration

\* ConfigGenerator.cities, salaries, experiences and degrees, in the order of
\* the dictionaries: label, code
cities ==
    << <<Nationwide, "100010000">>, <<Beijing, "101010100">>, <<Shanghai, "101020100">>,
       <<Guangzhou, "101280100">>, <<Shenzhen, "101280600">>, <<Hangzhou, "101210100">>,
       <<Chengdu, "101270100">>, <<Wuhan, "101200100">>, <<Xian, "101110100">>,
       <<Nanjing, "101190100">>, <<Suzhou, "101190400">>, <<Tianjin, "101030100">>,
       <<Chongqing, "101040100">>, <<Changsha, "101250100">>, <<Zhengzhou, "101180100">>,
       <<Jinan, "101120100">>, <<Qingdao, "101120200">>, <<Dalian, "101070200">>,
       <<Xiamen, "101230200">>, <<Fuzhou, "101230100">>, <<Hefei, "101220100">> >>

salaries ==
    << << <<"3","k","U4EE5","U4E0B">>, "100" >>,
       << <<"3","-","5","k">>, "101" >>,
       << <<"5","-","1","0","k">>, "404" >>,
       << <<"1","0","-","2","0","k">>, "405" >>,
       << <<"2","0","-","5","0","k">>, "406" >>,
       << <<"5","0","k","U4EE5","U4E0A">>, "407" >> >>

experiences ==
    << << Unlimited, None >>,
       << <<"1",Nian,"U5185">>, "103" >>,
       << <<"1","-","3",Nian>>, "104" >>,
       << <<"3","-","5",Nian>>, "105" >>,
       << <<"5","-","1","0",Nian>>, "106" >>,
       << <<"1","0",Nian,"U4EE5","U4E0A">>, "109" >> >>

degrees ==
    << << Unlimited, None >>,
       << <<"U5927","U4E13">>, "202" >>,
       << <<"U672C","U79D1">>, "203" >>,
       << <<"U7855","U58EB">>, "204" >> >>

\* find_city_code: the code of the first entry whose label contains the name or
\* is contained in it, None when there is none
find_city_code(city_name) ==
    LET hits == {k \in 1..Len(cities) :
                    Contains(cities[k][1], city_name) \/ Contains(city_name, cities[k][1])}
    IN  IF hits = {} THEN None
        ELSE cities[CHOOSE k \in hits : \A j \in hits : k <= j][2]

\* find_salary_code, on the normalize_key of its argument (lower-cased)
find_salary_code(salary_str) ==
    LET salary_normalized == Lower(salary_str)
        hits == {k \in 1..Len(salaries) :
                    salary_normalized = salaries[k][1]
                      \/ Contains(salary_normalized, salaries[k][1])}
    IN  IF hits = {} THEN None
        ELSE salaries[CHOOSE k \in hits : \A j \in hits : k <= j][2]

find_experience_code(exp_str) ==
    LET hits == {k \in 1..Len(experiences) :
                    Contains(experiences[k][1], exp_str) \/ Contains(exp_str, experiences[k][1])}
    IN  IF hits = {} THEN None
        ELSE experiences[CHOOSE k \in hits : \A j \in hits : k <= j][2]

find_degree_code(degree_str) ==
    LET hits == {k \in 1..Len(degrees) :
                    Contains(degrees[k][1], degree_str) \/ Contains(degree_str, degrees[k][1])}
    IN  IF hits = {} THEN None
        ELSE degrees[CHOOSE k \in hits : \A j \in hits : k <= j][2]

\* create_task(**task_info): the task dictionary, with only the facet keys that
\* got a code; "ValueError" when the city has no code.  A label that is None or
\* empty is <<>>.  Of the task's keys, name, output_file and scale are left out.
create_task(task_info) ==
    LET city_code == find_city_code(task_info.city)
        salary_code == IF task_info.salary # <<>>
                       THEN find_salary_code(task_info.salary) ELSE None
        experience_code == IF task_info.experience # <<>>
                           THEN find_experience_code(task_info.experience) ELSE None
        degree_code == IF task_info.degree # <<>>
                       THEN find_degree_code(task_info.degree) ELSE None
    IN  IF ~Truthy(city_code) THEN "ValueError"
        ELSE [k \in {"query", "city"}
                      \cup (IF Truthy(salary_code) THEN {"salary"} ELSE {})
                      \cup (IF Truthy(experience_code) THEN {"experience"} ELSE {})
                      \cup (IF Truthy(degree_code) THEN {"degree"} ELSE {}) |->
                CASE k = "query" -> task_info.query
                  [] k = "city" -> city_code
                  [] k = "salary" -> salary_code
                  [] k = "experience" -> experience_code
                  [] k = "degree" -> degree_code]

\* generate_config: the tasks that create_task made (one that raised is left
\* out) and the global settings
generate_config(tasks, n) ==
    LET made == SelectSeq(tasks, LAMBDA t : Truthy(find_city_code(t.city)))
    IN  [tasks |-> [k \in 1..Len(made) |-> create_task(made[k])],
         global_settings |-> [scroll_n |-> n, filter_tags |-> <<>>, blacklist |-> <<>>,
                              output_format |-> "json", merge_all_results |-> FALSE,
                              merge_output_file |-> "all_jobs_merged.json"]]

\* query_jobs_from_config: the arguments of its call of query_jobs for the
\* loaded configuration
query_jobs_from_config(cfg) ==
    LET Get(d, k, default) == IF k \in DOMAIN d THEN d[k] ELSE default
        search_params == Get(cfg, "search_params", <<>>)
        scroll_settings == Get(cfg, "scroll_settings", <<>>)
        filter_settings == Get(cfg, "filter_settings", <<>>)
        ToSet(s) == {s[k] : k \in 1..Len(s)}
    IN  [query |-> Get(search_params, "query", <<>>),
         city |-> Get(search_params, "city", ""),
         facets |-> <<Get(search_params, "salary", None),
                      Get(search_params, "experience", None),
                      Get(search_params, "degree", None)>>,
         scroll_n |-> Get(scroll_settings, "scroll_n", 8),
         filter_tags |-> ToSet(Get(filter_settings, "filter_tags", <<>>)),
         blacklist |-> ToSet(Get(filter_settings, "blacklist", <<>>)),
         headless_cb |-> FALSE,
         cookieFile |-> "absent"]

\* the task descriptions given to generate_config: a city by its name, by a
\* longer name (上海市), unknown (x) or empty; facets by label or left out
TaskInfos ==
    [query : {<<"P","y"," ","d","e","v">>},
     city : {Beijing, Shanghai \o <<"U5E02">>, <<"x">>, <<>>},
     salary : {<<>>, <<"1","0","-","2","0","K">>, <<"a">>},
     experience : {<<>>, Unlimited, <<"3","-","5",Nian>>},
     degree : {<<>>, <<"U672C","U79D1">>}]

\* nothing is generated yet: a list of no or one task description and a scroll
\* count are to be given to generate_config; or a configuration file written by
\* hand in the layout query_jobs_from_config reads is there
ConfigInit ==
    /\ Called(BaseCall)
    /\ salary_arg = <<>>
    /\ decoded = <<>>
    /\ redecoded = <<>>
    /\ \/ /\ task_infos \in {<<>>} \cup {<<t>> : t \in TaskInfos}
          /\ gen_scroll_n \in {3, 8}
          /\ config = <<>>
          /\ pc = "config"
       \/ /\ task_infos = <<>>
          /\ gen_scroll_n = 0
          /\ config = [search_params |-> [query |-> <<"P","y">>, city |-> "101020100",
                                          salary |-> "103"],
                       scroll_settings |-> [scroll_n |-> 3],
                       filter_settings |-> [filter_tags |-> <<TagUrgent>>]]
          /\ pc = "saved"

\* config = generator.generate_config(tasks, scroll_n); save_config(config)
GenerateConfig ==
    /\ pc = "config"
    /\ config' = generate_config(task_infos, gen_scroll_n)
    /\ pc' = "saved"
    /\ UNCHANGED <<crawlVars, decodeVars, task_infos, gen_scroll_n>>

\* query_jobs_from_config(config_path) on the saved file: load_config, then the
\* call of query_jobs
LoadFromConfig ==
    /\ pc = "saved"
    /\ LET call == query_jobs_from_config(config)
       IN  /\ query' = call.query
           /\ city' = call.city
           /\ salary' = call.facets[1]
           /\ experience' = call.facets[2]
           /\ degree' = call.facets[3]
           /\ scroll_n' = call.scroll_n
           /\ filter_tags' = call.filter_tags
           /\ blacklist' = call.blacklist
    /\ pc' = "called"
    /\ UNCHANGED <<headless_cb, default_city, loginVars, browser, pageVars, cardVars,
                   outVars, decodeVars, configVars>>

ConfigSpec == ConfigInit /\ [][GenerateConfig \/ LoadFromConfig]_vars

Next ==
    \/ Start \/ LoginGoto \/ LoginCheck \/ LoginTry \/ LoginExhausted
    \/ LoginReturned \/ Search \/ ApplyFacets \/ EnterPagination \/ Scroll \/ ListCards
    \/ CardNext \/ TagFilter \/ CardCityRead \/ Click \/ ActiveCheck \/ ReadDetail
    \/ Filter \/ ExperienceRead \/ Yield \/ Resume \/ Stop \/ Close \/ Finish

Spec == Init /\ [][Next]_vars

\* every await of login() is bounded by a timeout, so the coroutine is always
\* resumed until login returns
LoginStep == Start \/ LoginGoto \/ LoginCheck \/ LoginTry \/ LoginExhausted \/ LoginReturned

FairSpec == Spec /\ WF_vars(LoginStep)

\* ---------------------------------------------------------- properties

\* q[a..b] is a whitespace-delimited token of q
IsToken(q, a, b) ==
    /\ a <= b
    /\ \A k \in a..b : ~IsSpace(q[k])
    /\ a = 1 \/ IsSpace(q[a - 1])
    /\ b = Len(q) \/ IsSpace(q[b + 1])

\* q[a..b] occurs in text when case is ignored
OccursNoCase(q, a, b, text) ==
    \E off \in 0..(Len(text) - (b - a + 1)) :
        \A j \in 0..(b - a) : LowerCh(text[off + 1 + j]) = LowerCh(q[a + j])

\* C1: every token of the search keyword occurs, case-insensitively, in the
\* title or in the description of every yielded record
C1_KeywordTokensInRecord ==
    pc = "yielded" =>
        \A a \in 1..Len(query), b \in 1..Len(query) :
            IsToken(query, a, b) =>
                OccursNoCase(query, a, b, out.title) \/ OccursNoCase(query, a, b, out.desc)

\* a record is yielded whose title has one token and whose description has the
\* other, each in another case than the keyword's
C1_Witness ==
    /\ pc = "yielded"
    /\ query = <<"P","y"," ","d","e","v">>
    /\ out.title = <<"P","Y">>
    /\ out.desc = <<"D","e","v">>

\* C2: the city of every yielded record is the label of the criteria's city code
C2_RecordCityIsCriteriaCity ==
    pc = "yielded" =>
        out.city = (IF city \in DOMAIN city_code_mapping THEN city_code_mapping[city]
                    ELSE Unknown)

\* a record is yielded for a listing that shows no city anywhere, under the
\* nationwide code
C2_Witness ==
    /\ pc = "yielded"
    /\ city = "100010000"
    /\ out.city = Nationwide
    /\ cur.hint = NoHint

\* C3: with criteria city 北京, the card hint 北京·朝阳区 is resolved to 北京,
\* the first token of the hint (and so passes the city filter)
C3_HintResolvesToCity ==
    ( /\ pc \in {"click", "detail", "company", "filter"}
      /\ city = "101010100"
      /\ cur.hint[1] = Elem(Beijing \o <<Middot>> \o Chaoyang) )
    => job_city = Beijing

\* the recruiter's last-active text has a week, month or year unit
HasStaleUnit(a) ==
    a.vis /\ (\E k \in 1..Len(a.text) : a.text[k] = "U5468" \/ a.text[k] = "U6708" \/ a.text[k] = "U5E74")

\* C4: a listing whose recruiter last-active text has a week, month or year
\* unit gets no further than the activity check and is never yielded.  It does
\* when the panel still shows the detail view of the card opened before it.
C4_StaleNeverYielded ==
    (i > 0 /\ HasStaleUnit(cur.active)) =>
        /\ pc \in {"tag_filter", "card_city", "click", "detail", "cards", "done"}
        /\ lastYielded < i

\* C5: with a blacklist configured, no yielded record's company is in it
C5_BlacklistedNeverYielded ==
    (pc = "yielded" /\ blacklist # {}) => out.company \notin blacklist

\* a blacklisted company's listing that passed every other filter is discarded
C5_Witness ==
    /\ pc = "cards"
    /\ skipped = "blacklist"
    /\ cur.company = XCorp
    /\ blacklist = {XCorp}
    /\ lastYielded < i

\* C6: no yielded record's company name has the character 某
C6_AgencyNeverYielded ==
    pc = "yielded" => \A k \in 1..Len(out.company) : out.company[k] # "U67D0"

\* the listing of 某知名互联网公司 is discarded by the agency filter
C6_Witness ==
    /\ pc = "cards"
    /\ skipped = "agency"
    /\ cur.company = Agency
    /\ lastYielded < i

\* C7: a card whose visible tag is in the configured tag-exclusion set is never
\* clicked, its detail view is never opened, and no record is yielded for it
C7_TaggedNeverOpened ==
    (i > 0 /\ filter_tags # {} /\ cur.tag.vis /\ cur.tag.text \in filter_tags) =>
        /\ lastClicked < i
        /\ lastYielded < i
        /\ pc \in {"tag_filter", "cards", "done"}

\* a card tagged 急招 was discarded by the tag filter
C7_Witness ==
    /\ pc = "cards"
    /\ skipped = "tag"
    /\ cur.tag = Elem(TagUrgent)
    /\ lastClicked < i

\* C8: login returns false only if the marker was never visible during the
\* polling window, and has written the cookie file when it returns true
C8_FalseOnlyIfNeverVisible ==
    /\ loginRet = "false" => ~figure
    /\ loginRet = "true" => cookieFile = "refreshed"

C10_NoCrawlWithoutLogin ==
    loginRet = "false" =>
        /\ searchParams = <<>>
        /\ facetClicks = 0
        /\ wheels = 0
        /\ lastClicked = 0
        /\ lastYielded = 0
        /\ out = NoJob
        /\ pc \in {"logged", "done"}
        /\ pc = "done" => browser = "closed"

\* query_jobs has ended after a failed login
C10_Witness ==
    /\ pc = "done"
    /\ loginRet = "false"
    /\ browser = "closed"

\* C11: the cookie file is read before the login page is requested (a saved
\* file's cookies are in the context at the goto), is written only by the poll
\* that finds the marker visible and returns true, and is as it was found on
\* every run of login that returns false
C11_ReadBeforeWriteAfter ==
    /\ [][(pc = "login_goto" /\ pc' # pc /\ cookieFile # "absent") => ctxCookies = "saved"]_vars
    /\ [][cookieFile' # cookieFile =>
            /\ pc = "login_check" /\ figure /\ poll < MaxPolls
            /\ loginRet = "none" /\ loginRet' = "true"
            /\ cookieFile' = "refreshed"]_vars
    /\ [][loginRet' = "false" => UNCHANGED cookieFile]_vars
    /\ [](loginRet = "false" => cookieFile # "refreshed")

\* a saved cookie file was loaded, the marker was visible and the file rewritten
C11_Witness ==
    /\ pc = "logged"
    /\ loginRet = "true"
    /\ ctxCookies = "saved"
    /\ cookieFile = "refreshed"

\* C12: the scroll loop runs at most scroll_n iterations, and the iteration that
\* measures the same extent as the one before it issues a wheel of delta zero and
\* is the last one
C12_PaginationBounded ==
    /\ it <= scroll_n
    /\ Len(scrolls) <= scroll_n
    /\ \A k \in 2..Len(scrolls) :
          scrolls[k].bbox = scrolls[k - 1].bbox =>
              /\ scrolls[k].delta = 0
              /\ Len(scrolls) = k
              /\ pc # "scroll"

\* the second of three allowed iterations measured the extent of the first, the
\* loading indicator came and went, and the loop was left
C12_Witness ==
    /\ scroll_n = 3
    /\ Len(scrolls) = 2
    /\ scrolls[2].bbox = scrolls[1].bbox
    /\ scrolls[2].loading = "hidden"
    /\ pc = "list"

\* in iteration k of the scroll loop the loading indicator did not appear, or the
\* extent measured has not grown since the previous measurement
EndsPagination(k) ==
    \/ scrolls[k].loading = "absent"
    \/ scrolls[k].bbox <= (IF k = 1 THEN 0 ELSE scrolls[k - 1].bbox)

\* C13: pagination ends at the first iteration in which the loading indicator
\* does not appear or the measured extent has not grown; in every earlier
\* iteration the indicator appeared and the extent grew; otherwise pagination
\* goes on until scroll_n iterations are done
C13_EndsAtFirstAbsentOrFlat ==
    /\ \A k \in 1..(Len(scrolls) - 1) : ~EndsPagination(k)
    /\ (pc \notin {"scroll"} /\ Len(scrolls) > 0 /\ ~EndsPagination(Len(scrolls)))
          => Len(scrolls) = scroll_n

\* C14: no scroll is issued once a card was reached, every click opens a card
\* at a later position than the last one opened, and every record is yielded
\* for the card just opened, at a later position than the last record's card
C14_OrderedCrawl ==
    [][ /\ wheels' # wheels => (i = 0 /\ lastClicked = 0 /\ lastYielded = 0)
        /\ (pc = "click" /\ pc' # pc) => (lastClicked < i /\ lastClicked' = i)
        /\ lastClicked' # lastClicked => (pc = "click" /\ lastClicked' > lastClicked)
        /\ (pc' = "yielded" /\ pc # pc') =>
              (lastYielded < i /\ lastYielded' = i /\ lastClicked = i)
        /\ lastYielded' # lastYielded => (pc' = "yielded" /\ lastYielded' > lastYielded)
      ]_vars

\* after three scrolls the second of two cards was opened and a record yielded
\* for it
C14_Witness ==
    /\ wheels = 3
    /\ pc = "yielded"
    /\ i = 2
    /\ lastClicked = 2
    /\ lastYielded = 2

\* C15: the pipeline acts (opens a card, reads it, scrolls, advances) only while
\* the consumer awaits a record; a record handed over is that of the last card
\* opened, and the next click comes only after the consumer asked for the next
\* record
C15_LazySequential ==
    /\ [][consumer # "awaiting" =>
            UNCHANGED <<pageVars, cardVars, lastClicked, lastYielded, skipped, loginVars>>]_vars
    /\ [][lastClicked' # lastClicked => (out = NoJob /\ consumer = "awaiting")]_vars
    /\ [](consumer = "holding" =>
            (pc = "yielded" /\ out # NoJob /\ lastYielded = i /\ lastClicked = i))

\* the consumer holds the first card's record while a second card is still to
\* be opened
C15_Witness ==
    /\ consumer = "holding"
    /\ lastYielded = 1
    /\ lastClicked = 1
    /\ nCards = 2

\* the abandoned generator is always closed in the end
CancelSpec == Spec /\ WF_vars(Close)

ObfuscationRange == <<"UE031","UE032","UE033","UE034","UE035","UE036","UE037","UE038","UE039","UE03A">>
DigitChars == <<"0","1","2","3","4","5","6","7","8","9">>

\* C17: decode_salary applied to its own result gives that result
C17_DecodeIdempotent ==
    pc = "redecoded" => redecoded = decoded

\* a text with an obfuscation character was decoded twice
C17_Witness ==
    /\ pc = "redecoded"
    /\ salary_arg = <<"UE031", "K">>
    /\ decoded = <<"0", "K">>

\* C18: the salary of a yielded record has none of the ten obfuscation
\* characters
C18_SalaryHasNoObfuscation ==
    pc = "yielded" =>
        \A k \in 1..Len(out.salary) : \A d \in 1..10 : out.salary[k] # ObfuscationRange[d]

\* a record was yielded for a listing whose salary text is obfuscated
C18_Witness ==
    /\ pc = "yielded"
    /\ cur.salary = <<"UE032","UE036","-","2","5","K">>
    /\ out.salary = <<"1","5","-","2","5","K">>

\* C19: the result of decode_salary is as long as its argument, and its i-th
\* character is the digit d where the argument has U+E031+d and the argument's
\* character elsewhere; the obfuscated 1 and 5 followed by -25K decode to 15-25K
C19_DecodePerCharacter ==
    pc \in {"decoded", "redecoded"} =>
        /\ Len(decoded) = Len(salary_arg)
        /\ \A k \in 1..Len(salary_arg) :
              IF \E d \in 1..10 : salary_arg[k] = ObfuscationRange[d]
              THEN \E d \in 1..10 : salary_arg[k] = ObfuscationRange[d] /\ decoded[k] = DigitChars[d]
              ELSE decoded[k] = salary_arg[k]
        /\ salary_arg = <<"UE032","UE036","-","2","5","K">>
              => decoded = <<"1","5","-","2","5","K">>

\* the obfuscated 15-25K was decoded
C19_Witness ==
    /\ pc = "decoded"
    /\ salary_arg = <<"UE032","UE036","-","2","5","K">>
    /\ decoded = <<"1","5","-","2","5","K">>

\* the value the criteria give for a parameter name
CriteriaValue(name) ==
    CASE name = "query" -> query
      [] name = "city" -> city
      [] name = "salary" -> salary
      [] name = "experience" -> experience
      [] name = "degree" -> degree

\* the facets of the criteria that are present (neither missing nor empty)
PresentFacets ==
    {name \in {"salary", "experience", "degree"} : CriteriaValue(name) \notin {None, ""}}

\* C20: the search URL has exactly the parameters query and city and one for
\* each present facet, each once and with the criteria's value; an absent
\* facet has no parameter, not even an empty one
C20_ExactlyPresentParams ==
    searchParams # <<>> =>
        LET names == {searchParams[k][1] : k \in 1..Len(searchParams)}
        IN  /\ names = {"query", "city"} \cup PresentFacets
            /\ Len(searchParams) = Cardinality(names)
            /\ \A k \in 1..Len(searchParams) :
                  searchParams[k][2] = CriteriaValue(searchParams[k][1])
            /\ PresentFacets = {} => names = {"query", "city"}

\* the search page was requested for criteria with an empty salary facet, an
\* experience facet and no degree facet
C20_Witness ==
    /\ salary = ""
    /\ experience = "106"
    /\ degree = None
    /\ Len(searchParams) = 3
    /\ pc = "facets"

\* an absolute URL of the web: a scheme of http or https, then ://
IsAbsolute(u) ==
    \/ StartsWith(u, <<"h","t","t","p",":","/","/">>)
    \/ StartsWith(u, <<"h","t","t","p","s",":","/","/">>)

\* C21: the url of a yielded record is empty when the card's href is absent or
\* empty, the href itself when the href is absolute, and otherwise
\* https://www.zhipin.com followed by the href; so it is empty or absolute
C21_UrlEmptyOrAbsolute ==
    pc = "yielded" =>
        /\ out.url = <<>> \/ IsAbsolute(out.url)
        /\ (~cur.href.vis \/ cur.href.text = <<>>) => out.url = <<>>
        /\ (cur.href.vis /\ IsAbsolute(cur.href.text)) => out.url = cur.href.text
        /\ (cur.href.vis /\ cur.href.text # <<>> /\ ~IsAbsolute(cur.href.text)) =>
              out.url = <<"h","t","t","p","s",":","/","/","w","w","w",".","z","h","i","p",
                          "i","n",".","c","o","m">> \o cur.href.text

\* C22: a listing that lacks its description block, recruiter block, title,
\* salary or company name never ends the stream with an error: its card is
\* skipped or its field defaulted, and the crawl goes on
C22_AbsentNeverAborts ==
    (i > 0 /\ cur.absent # "none") => pc # "raised"

\* C23: whatever fails in the facet block (the container probe raises or finds
\* nothing, a facet code has no label, a click raises), query_jobs goes on to
\* pagination, and the search URL requested before it, facet parameters
\* included, stays as it was to the end of the crawl
C23_FacetsBestEffort ==
    /\ [][(pc = "facets" /\ pc' # pc) => (pc' = "paginate" /\ UNCHANGED searchParams)]_vars
    /\ [][searchParams' # searchParams => pc = "search"]_vars
    /\ [](pc \in {"facets", "paginate", "list", "cards"}
             => searchParams = SearchParams(query, city, salary, experience, degree))

\* a click of the facet block raised, the salary code 999 had no label, and the
\* crawl went on to yield the first card's record
C23_Witness ==
    /\ facetFailed
    /\ salary = "999"
    /\ searchParams = SearchParams(query, city, salary, experience, degree)
    /\ pc = "yielded"
    /\ lastYielded = 1

\* C24: once the iteration of a clicked card is over (the loop is back at its
\* head, or the crawl has ended), the detail view of that card has had its
\* dwell of 2 to 5 seconds, whether the listing was yielded or not
C24_DwellAfterEveryClick ==
    (pc \in {"cards", "done"} /\ lastClicked > 0) => lastDwelled = lastClicked

\* C25: when query_jobs_from_config has loaded a configuration that
\* generate_config produced for one task, query_jobs is called with the query,
\* the city code and the facet codes of that task and with the scroll count of
\* the generated settings
C25_GeneratedConfigIsConsumed ==
    (pc = "called" /\ "tasks" \in DOMAIN config /\ Len(config.tasks) = 1) =>
        LET task == config.tasks[1]
        IN  /\ query = task.query
            /\ city = task.city
            /\ salary = (IF "salary" \in DOMAIN task THEN task.salary ELSE None)
            /\ experience = (IF "experience" \in DOMAIN task THEN task.experience ELSE None)
            /\ degree = (IF "degree" \in DOMAIN task THEN task.degree ELSE None)
            /\ scroll_n = config.global_settings.scroll_n

\* C26: headless_cb is invoked only in the try block of a poll whose check found
\* the marker not visible, before login has returned, with a callback given,
\* and after the login button was clicked and the code image became visible;
\* never without a callback, and never once login has returned
C26_CallbackOnlyUnattended ==
    /\ [](lastTry.invoked => (headless_cb /\ lastTry.clicked /\ lastTry.qrcode
                                /\ loginRet = "none"))
    /\ [][(lastTry'.invoked /\ lastTry' # lastTry) =>
            (pc = "login_try" /\ ~figure /\ loginRet = "none" /\ loginRet' = "none")]_vars
    /\ [][qrSent' # qrSent => (lastTry'.invoked /\ qrSent')]_vars
    /\ [](~headless_cb => ~qrSent)
    /\ [][loginRet # "none" => UNCHANGED <<qrSent, lastTry>>]_vars

\* the callback got the code image in the try block of the second poll
C26_Witness ==
    /\ pc = "login_check"
    /\ poll = 2
    /\ lastTry.invoked
    /\ headless_cb
    /\ ~figure

\* the card gave a city value: one of its location hints is visible, not blank,
\* and its first token is not 未知
CardGaveCity(h) ==
    \E k \in 1..Len(h) :
        h[k].vis /\ StripNonEmpty(h[k].text) /\ Split(h[k].text)[1] # Unknown

\* C27: when the card gave a city value (the criteria city included), that
\* value is still the listing's city after the detail view has been read
C27_CardCitySurvives ==
    (pc = "filter" /\ CardGaveCity(cur.hint)) => job_city = CardCity(default_city, cur.hint)

\* the first token of the first visible, non-blank location element of the
\* detail view that is neither the criteria city nor 未知; <<>> when there is none
FirstLocCity(loc, default) ==
    LET good == {k \in 1..Len(loc) :
                    /\ loc[k].vis /\ StripNonEmpty(loc[k].text)
                    /\ Split(loc[k].text)[1] \notin {default, Unknown}}
    IN  IF good = {} THEN <<>>
        ELSE Split(loc[CHOOSE k \in good : \A j \in good : k <= j].text)[1]

\* the known city found first in the first visible info block that names a
\* known city other than the criteria city; <<>> when there is none
FirstInfoCity(info, default) ==
    LET named(k) == {n \in 1..Len(city_list) : Contains(info[k].text, city_list[n])}
        first(k) == city_list[CHOOSE n \in named(k) : \A m \in named(k) : n <= m]
        good == {k \in 1..Len(info) :
                    info[k].vis /\ named(k) # {} /\ first(k) # default}
    IN  IF good = {} THEN <<>>
        ELSE first(CHOOSE k \in good : \A j \in good : k <= j)

\* C28: when the detail view is consulted, the city is the first non-default
\* value of the location selectors if there is one; else the first non-default
\* city the scan of the info blocks finds; else the criteria city
C28_StrictCascade ==
    (pc = "filter" /\ CardCity(default_city, cur.hint) \in {default_city, Unknown}) =>
        job_city = IF FirstLocCity(Shown.loc, default_city) # <<>>
                   THEN FirstLocCity(Shown.loc, default_city)
                   ELSE IF FirstInfoCity(Shown.info, default_city) # <<>>
                        THEN FirstInfoCity(Shown.info, default_city)
                        ELSE default_city

\* the location selector gave 上海 although the info block names 北京
C28_Witness ==
    /\ pc = "filter"
    /\ default_city = Beijing
    /\ CardCity(default_city, cur.hint) = default_city
    /\ FirstLocCity(Shown.loc, default_city) = Shanghai
    /\ \E k \in 1..Len(Shown.info) : Shown.info[k].vis /\ Contains(Shown.info[k].text, Beijing)
    /\ job_city = Shanghai

\* the first pass matched: some visible info block has a match of the pattern
FirstPassMatched(info) ==
    \E k \in 1..Len(info) : info[k].vis /\ ReSearch(info[k].text, InfoPattern) # <<>>

\* C29: a value matched by the first pass, a literal 不限 included, is the
\* listing's experience; the description decides only when the first pass
\* matched nothing, and 不限 is the default when it matches nothing either
C29_ExperienceCascade ==
    pc = "blacklist" =>
        /\ FirstPassMatched(Shown.info) => experience_text = InfoExperienceFrom(Shown.info, 1)
        /\ (~FirstPassMatched(Shown.info)
              /\ \A k \in 1..Len(DescPatterns) : ReSearch(desc_text, <<DescPatterns[k]>>) = <<>>)
             => experience_text = Unlimited

\* C30: the title, description and salary of a yielded record are those of the
\* listing whose card was clicked, the one its company name and url come from
C30_RecordOfOneListing ==
    pc = "yielded" =>
        /\ out.company = cur.company
        /\ out.url = FullUrl(cur.href)
        /\ out.title = cur.title
        /\ out.desc = cur.desc
        /\ out.salary = decode_salary(cur.salary)

\* the sum of the wheel deltas of the first k iterations of the scroll loop
RECURSIVE SumDeltas(_)
SumDeltas(k) == IF k = 0 THEN 0 ELSE SumDeltas(k - 1) + scrolls[k].delta

\* iteration k of the scroll loop did not end it: the loading indicator came and
\* went and the extent measured was larger than the one measured before
WentOn(k) ==
    /\ scrolls[k].loading = "hidden"
    /\ scrolls[k].bbox > (IF k = 1 THEN 0 ELSE scrolls[k - 1].bbox)

\* C31: after every scroll the wheel deltas issued so far add up to the extent
\* measured in that iteration; prev_h never decreases, and it is the extent
\* measured in the latest iteration that did not end the loop (0 if none)
C31_PaginationInvariant ==
    /\ [](Len(scrolls) > 0 => SumDeltas(Len(scrolls)) = scrolls[Len(scrolls)].bbox)
    /\ [](wheels = Len(scrolls))
    /\ [][prev_h' >= prev_h]_vars
    /\ [](prev_h = IF Len(scrolls) = 0 THEN 0
                   ELSE IF WentOn(Len(scrolls)) THEN scrolls[Len(scrolls)].bbox
                   ELSE IF Len(scrolls) = 1 THEN 0
                   ELSE scrolls[Len(scrolls) - 1].bbox)

\* three wheels were issued, of deltas 1, 1 and 0, for extents 1, 2 and 2
C31_Witness ==
    /\ Len(scrolls) = 3
    /\ scrolls[1].delta = 1
    /\ scrolls[2].delta = 1
    /\ scrolls[3].delta = 0
    /\ scrolls[3].bbox = 2
    /\ prev_h = 2

\* listing l passes every check of the filter chain on its own content, and
\* lacks none of the elements read from it
PassesChain(l) ==
    /\ ~(filter_tags # {} /\ l.tag.vis /\ l.tag.text \in filter_tags)
    /\ ~HasStaleUnit(l.active)
    /\ \A a \in 1..Len(query), b \in 1..Len(query) :
          IsToken(query, a, b) =>
              OccursNoCase(query, a, b, l.title) \/ OccursNoCase(query, a, b, l.desc)
    /\ DetailCity(CardCity(default_city, l.hint), default_city, l.loc, l.info) = default_city
    /\ \A k \in 1..Len(l.company) : l.company[k] # "U67D0"
    /\ l.company \notin blacklist
    /\ l.absent = "none"

\* C32: once the iteration of a card is over, a record has been yielded for it
\* if its listing passes every check of the filter chain and lacks no element
C32_ChainComplete ==
    (i > 0 /\ pc \in {"cards", "done"} /\ PassesChain(cur)) => lastYielded = i

\* the first visible, non-blank location hint of the card whose first token is
\* not 未知 has a first token other than 全国: the hint names a concrete city
HintConcrete(h) ==
    LET named == {k \in 1..Len(h) :
                     h[k].vis /\ StripNonEmpty(h[k].text) /\ Split(h[k].text)[1] # Unknown}
    IN  /\ named # {}
        /\ Split(h[CHOOSE k \in named : \A j \in named : k <= j].text)[1] # Nationwide

C34_EndReleasesSession ==
    /\ [](pc \in {"done", "raised"} => browser = "closed")
    /\ [](browser = "open" => pc \notin {"start", "done", "raised"})
    /\ [][browser = "closed" => browser' = "closed"]_vars
    /\ [][pc \notin {"done", "raised"}]_vars

\* the login page did not load: the error left login and query_jobs, and the
\* context was exited
C34_Witness ==
    /\ pc = "raised"
    /\ loginRet = "none"
    /\ searchParams = <<>>
    /\ browser = "closed"

\* a band label without its notation: the unit letter k or K and the particle
\* 以 dropped, so that 5-10k and 5K-10K, and 1年内 and 1年以内, are the same band
BandOf(label) == SelectSeq(label, LAMBDA ch : ch \notin {"k", "K", "U4EE5"})

\* every code of the generator's table gen is absent from the crawler's table
\* or maps there to the band of the generator's label
FacetAgrees(gen, table) ==
    \A k \in 1..Len(gen) :
        gen[k][2] # None =>
            LET t == TableGet(table, gen[k][2])
            IN  t = <<>> \/ BandOf(t) = BandOf(gen[k][1])

\* the facet code a generated task carries under key is absent from the
\* crawler's table or maps there to the band of a generator label with that code
TaskFacetAgrees(task, key, gen, table) ==
    key \in DOMAIN task =>
        LET t == TableGet(table, task[key])
        IN  t = <<>> \/ \E k \in 1..Len(gen) :
                            gen[k][2] = task[key] /\ BandOf(t) = BandOf(gen[k][1])

\* C35: every salary, experience and degree code of the generator is absent
\* from the crawler's code-to-label table or maps there to the band of the
\* generator's label, and so does every facet code of a generated task
C35_FacetTablesAgree ==
    /\ ("tasks" \in DOMAIN config) =>
          \A n \in 1..Len(config.tasks) :
              /\ TaskFacetAgrees(config.tasks[n], "salary", salaries, salary_code_to_text)
              /\ TaskFacetAgrees(config.tasks[n], "experience", experiences,
                                 experience_code_to_text)
              /\ TaskFacetAgrees(config.tasks[n], "degree", degrees, degree_code_to_text)
    /\ pc = "called" =>
          /\ FacetAgrees(salaries, salary_code_to_text)
          /\ FacetAgrees(experiences, experience_code_to_text)
          /\ FacetAgrees(degrees, degree_code_to_text)

====
